---- MODULE Spec2Model ----
(***************************************************************************)
(* A state-machine model of the emission-line fitting engine of            *)
(* qsofitmore (src/qsofitmore/fitmodule.py): QSOFitNew._DoLineFit, the     *)
(* per-complex loop, QSOFitNew.new_line_mc, the Monte Carlo refit loop,    *)
(* the reads _PlotFig makes of the line-fit results, and _DoContiFit.      *)
(* Wavelengths are integers on a 1-Angstrom grid.  The inherited           *)
(* PyQSOFit methods (_do_tie_line, _do_line_kmpfit, line_prop) and the     *)
(* kmpfit solver are opaque: their results are tokens or nondeterministic  *)
(* choices from small sets.                                                *)
(***************************************************************************)
EXTENDS Integers, Sequences, FiniteSets, TLC

VARIABLES
    pc,                 \* "idle" | "loop" | "mc" | "done": position in _DoLineFit
    call,               \* number of _DoLineFit invocations started on this object
    wave,               \* argument wave: the set of pixel wavelengths
    dips,               \* pixels where line_flux < -err (from line_flux, err)
    MC, n_trails,       \* self.MC, self.n_trails (set by Fit)
    tie_lambda, tie_width, tie_flux_1, tie_flux_2,   \* self.tie_* (set by Fit)
    ii,                 \* loop index of "for ii in range(ncomp)" (0-based)
    loc,                \* the local accumulators of _DoLineFit (a record)
    ind_line,           \* catalog rows of the complex handed to the resolver/fitter
    tie,                \* self.ind_tie_* index sets left by _do_tie_line
    line_fit,           \* the kmpfit Fitter of the complex being fitted
    dof_fix,            \* local dof_fix of the last fitted complex
    mc,                 \* the frame of new_line_mc (a record) while pc = "mc"
    self,               \* the attributes _DoLineFit assigns on the object
    visits,             \* how often each loop index has been processed
    obj,                \* self.path and self.plateid, set by the constructor
    conti,              \* the frame of _DoContiFit (a record)
    fig                 \* what _PlotFig read and drew (a record)

vars == <<pc, call, wave, dips, MC, n_trails, tie_lambda, tie_width,
          tie_flux_1, tie_flux_2, ii, loc, ind_line, tie, line_fit, dof_fix,
          mc, self, visits, obj, conti, fig>>

\* What no step of _DoLineFit or new_line_mc assigns.
contivars == <<obj, conti, fig>>

inputs == <<wave, dips, MC, n_trails, tie_lambda, tie_width, tie_flux_1,
            tie_flux_2>>

----------------------------------------------------------------------------
(* Bounds of the model *)

MaxTrails == 2
MaxCalls == 2

----------------------------------------------------------------------------
(* The line catalog (qsopar.fits): rows in file order.  vindex, windex and  *)
(* findex are the tie-group identifiers (0: not tied).                      *)

Row(ln, cn, lam, lo, hi, ng, vi, wi, fi) ==
    [linename |-> ln, compname |-> cn, lambda |-> lam, minwav |-> lo,
     maxwav |-> hi, ngauss |-> ng, vindex |-> vi, windex |-> wi, findex |-> fi]

linelist ==
    << Row("OIII5007c", "Hb",   4870, 4855, 4872, 2, 1, 1, 2),
       Row("OIII4959c", "Hb",   4864, 4855, 4872, 1, 1, 1, 2),
       Row("Hb_br",     "Hb",   4862, 4855, 4872, 1, 0, 0, 0),
       Row("MgII_br",   "MgII", 2798, 2790, 2803, 2, 1, 0, 1),
       Row("MgII_na",   "MgII", 2799, 2790, 2803, 1, 2, 0, 1) >>

Rows == 1..Len(linelist)

\* Lexicographic order of the complex names, as np.unique sorts strings.
AlphaRank(name) == CASE name = "Hb" -> 1 [] name = "MgII" -> 2 [] OTHER -> 3

\* Observed spectra offered to _DoLineFit.
Spectra ==
    { 3000..3005,
      4856..4862,
      2789..2804,
      (2789..2804) \cup (4853..4865),
      (2789..2804) \cup (4853..4869),
      (2789..2804) \cup (4853..4873) }

\* Sets of pixels whose flux lies below -err.
DipSets == { {}, {2791}, {2791, 2792}, {4856} }

\* Solver outcomes: (status, shift of the fitted parameters from the start).
StatusCodes == {1, 5}
Shifts == {0, 1}

----------------------------------------------------------------------------
(* Helpers *)

SetMin(S) == CHOOSE x \in S : \A y \in S : x <= y
SetMax(S) == CHOOSE x \in S : \A y \in S : x >= y

RECURSIVE SumSeq(_)
SumSeq(s) == IF s = <<>> THEN 0 ELSE Head(s) + SumSeq(Tail(s))

RECURSIVE Flatten(_)
Flatten(ss) == IF ss = <<>> THEN <<>> ELSE Head(ss) \o Flatten(Tail(ss))

\* The increasing sequence of the elements of a finite set of integers.
RECURSIVE Ascending(_)
Ascending(S) ==
    IF S = {} THEN <<>> ELSE <<SetMin(S)>> \o Ascending(S \ {SetMin(S)})


\* The elements of S as a sequence ordered by the integer key k[x]; equal
\* keys keep the order of r[x] (the order the elements had before sorting).
RECURSIVE SortByKey(_, _, _)
SortByKey(S, k, r) ==
    IF S = {} THEN <<>>
    ELSE LET m == CHOOSE x \in S :
                    \A y \in S : k[x] < k[y] \/ (k[x] = k[y] /\ r[x] <= r[y])
         IN <<m>> \o SortByKey(S \ {m}, k, r)

----------------------------------------------------------------------------
(* Catalog filtering and complex ordering, _DoLineFit lines 388-404 *)

\* One of the five rest-frame ranges in which absorption is removed.
InAbsorptionRange(w) ==
    \/ (w > 2700 /\ w < 2900)
    \/ (w > 1700 /\ w < 1970)
    \/ (w > 1500 /\ w < 1700)
    \/ (w > 1290 /\ w < 1450)
    \/ (w > 1150 /\ w < 1290)

\* ind_neg_line: TRUE for a pixel that is kept.
ind_neg_line(w, dp) == ~(InAbsorptionRange(w) /\ w \in dp)

InRange_inclusive(lam, lo, hi) == lam >= lo /\ lam <= hi
\* One element of ind_kind_line: the rest wavelength is strictly between
\* lo = wave.min() and hi = wave.max().
InRange(lam, lo, hi) == lam > lo /\ lam < hi

\* The rows selected by ind_kind_line.
ind_kind_line(wv) ==
    LET lo == SetMin(wv)
        hi == SetMax(wv)
    IN {k \in Rows : InRange(linelist[k].lambda, lo, hi)}

\* np.unique(..., return_index=True): the distinct complex names of the
\* given selected rows, and for each the first selected row that carries it.
UniqNames(sel) == {linelist[k].compname : k \in sel}
FirstRow(name, sel) == SetMin({k \in sel : linelist[k].compname = name})
AlphaKey(sel) == [n \in UniqNames(sel) |-> AlphaRank(n)]
uniq_linecomp(sel) ==
    LET ak == AlphaKey(sel)
    IN SortByKey(UniqNames(sel), ak, ak)
CenterKey(sel) == [n \in UniqNames(sel) |-> linelist[FirstRow(n, sel)].lambda]

UniqLinecompSort_unsorted(sel) == uniq_linecomp(sel)
\* uniq_linecomp[lambda[uniq_ind].argsort()]
UniqLinecompSort(sel) ==
    LET ck == CenterKey(sel)
        ak == AlphaKey(sel)
    IN SortByKey(UniqNames(sel), ck, ak)

\* np.sort(lambda[ind_kind_line][uniq_ind])
AllCompCenter(sel) ==
    LET ck == CenterKey(sel)
        s == SortByKey(UniqNames(sel), ck, ck)
    IN [i \in 1..Len(s) |-> ck[s[i]]]

----------------------------------------------------------------------------
(* Per-complex selection, _DoLineFit lines 421-439 *)

IndLine_inrange(name, sel) ==
    {k \in sel : linelist[k].compname = name}
\* ind_line: every catalog row of the complex (ind_kind_line, passed as sel,
\* is not consulted).
IndLine(name, sel) == {k \in Rows : linelist[k].compname = name}

\* linelist_fit, ngauss_fit for a set of rows.
LinelistFit(rows) ==
    LET asc == Ascending(rows)
    IN [i \in 1..Len(asc) |-> linelist[asc[i]]]
NgaussFit(rows) ==
    LET lf == LinelistFit(rows)
    IN [i \in 1..Len(lf) |-> lf[i].ngauss]
NParams(rows) == 3 * SumSeq(NgaussFit(rows))

\* comp_range, read from the first row of the complex.
CompRange(rows) == <<LinelistFit(rows)[1].minwav, LinelistFit(rows)[1].maxwav>>

\* ind_n: the pixels of the fit window.
IndN(wv, dp, rng) ==
    {w \in wv : w > rng[1] /\ w < rng[2] /\ ind_neg_line(w, dp)}

EnoughPixels_atleast(npix) == npix >= 10
\* np.sum(ind_n) > 10
EnoughPixels(npix) == npix > 10

McEnabled_flagonly(mcflag, ntr) == mcflag
\* self.MC == True and self.n_trails > 0
McEnabled(mcflag, ntr) == mcflag /\ ntr > 0

----------------------------------------------------------------------------
(* The inherited collaborators, modelled by their contracts *)

\* Offset in the parameter vector of the first component of line i.
ParamOffset(rows, i) == 3 * SumSeq(SubSeq(NgaussFit(rows), 1, i - 1))

\* _do_tie_line: the six index sets self.ind_tie_*; a line in tie group 1 or
\* 2 contributes the index of its first component's center (+1), width (+2)
\* or scale (+0).
TieIndex(rows, field, grp, off) ==
    {ParamOffset(rows, i) + off :
        i \in {j \in 1..Cardinality(rows) : LinelistFit(rows)[j][field] = grp}}

do_tie_line(rows) ==
    [vindex1 |-> TieIndex(rows, "vindex", 1, 1),
     vindex2 |-> TieIndex(rows, "vindex", 2, 1),
     windex1 |-> TieIndex(rows, "windex", 1, 2),
     windex2 |-> TieIndex(rows, "windex", 2, 2),
     findex1 |-> TieIndex(rows, "findex", 1, 0),
     findex2 |-> TieIndex(rows, "findex", 2, 0)]

NoTie ==
    [vindex1 |-> {}, vindex2 |-> {}, windex1 |-> {}, windex2 |-> {},
     findex1 |-> {}, findex2 |-> {}]

\* self.line_fit_ini and self.line_fit_par, as _do_line_kmpfit leaves them:
\* one start value and one pair of limits per parameter.
LineFitIni(rows) == [g \in 1..NParams(rows) |-> 10 * g]
LineFitPar(rows) == [g \in 1..NParams(rows) |-> <<10 * g - 5, 10 * g + 5>>]

\* The parameter vector a fit started at p0 returns when the solver moved
\* every parameter by sh.
Fitted(p0, sh) == [g \in 1..Len(p0) |-> p0[g] + sh]

\* The Fitter after _do_line_kmpfit: parameters, status, chi2_min, niter and
\* the nominal degrees of freedom (pixels minus parameters).
do_line_kmpfit(rows, npix, st, sh) ==
    [params |-> Fitted(LineFitIni(rows), sh), status |-> st, chi2_min |-> 840,
     niter |-> 3 + sh, dof |-> npix - NParams(rows)]

NoFit == [params |-> <<>>, status |-> 0, chi2_min |-> 0, niter |-> 0, dof |-> 0]

\* line_prop: (fwhm, sigma, ew, peak, area) of a parameter vector.
line_prop(center, params, kind) ==
    LET s == SumSeq(params) + (center % 7)
    IN [q \in 1..5 |-> q * s]

Std_uncentered(xs) == Len(xs) * SumSeq([i \in 1..Len(xs) |-> xs[i] * xs[i]])
\* numpy's std() of a sample, as n^2 times the variance (0 iff std is 0).
Std(xs) ==
    LET n == Len(xs)
    IN n * SumSeq([i \in 1..n |-> xs[i] * xs[i]]) - SumSeq(xs) * SumSeq(xs)

----------------------------------------------------------------------------
(* dof_fix, _DoLineFit lines 455-464 *)

\* np.max((len(s), 1)) - 1
GroupDof(s) == (IF Cardinality(s) > 1 THEN Cardinality(s) ELSE 1) - 1

DofFix(t, tl, tw, tf1, tf2) ==
    (IF tl  THEN GroupDof(t.vindex1) + GroupDof(t.vindex2) ELSE 0)
  + (IF tw  THEN GroupDof(t.windex1) + GroupDof(t.windex2) ELSE 0)
  + (IF tf1 THEN GroupDof(t.findex1) + GroupDof(t.findex2) ELSE 0)

----------------------------------------------------------------------------
(* Result packing, _DoLineFit lines 466-534.  A value is a record that      *)
(* says which quantity of which complex (and which call) it is; a name is   *)
(* a record of the parts the code joins into the name string.               *)

Val(blk, c, who, q, kind, idx, v, cl) ==
    [blk |-> blk, comp |-> c, who |-> who, q |-> q, kind |-> kind,
     idx |-> idx, v |-> v, call |-> cl]

Nm(blk, num, line, g, q) ==
    [blk |-> blk, num |-> num, line |-> line, g |-> g, q |-> q]

\* comp_result_tmp, comp_result_type_tmp, comp_result_name_tmp
CompValues(c, rows, fit, dfix, cl) ==
    LET who == LinelistFit(rows)[1].compname
    IN << Val("comp", c, who, "complex_name", "value", -1, 0, cl),
          Val("comp", c, who, "status", "value", -1, fit.status, cl),
          Val("comp", c, who, "chi2_min", "value", -1, fit.chi2_min, cl),
          Val("comp", c, who, "red_chi2", "value", -1,
              fit.chi2_min \div (fit.dof + dfix), cl),
          Val("comp", c, who, "niter", "value", -1, fit.niter, cl),
          Val("comp", c, who, "dof", "value", -1, fit.dof + dfix, cl) >>

CompTypes == <<"str", "int", "float", "float", "int", "int">>

CompNames(c) ==
    << Nm("comp", c + 1, "", 0, "complex_name"),
       Nm("comp", c + 1, "", 0, "line_status"),
       Nm("comp", c + 1, "", 0, "line_min_chi2"),
       Nm("comp", c + 1, "", 0, "line_red_chi2"),
       Nm("comp", c + 1, "", 0, "niter"),
       Nm("comp", c + 1, "", 0, "ndof") >>

\* gauss_tmp: every fitted parameter, followed by its Monte Carlo standard
\* deviation when mcon.
GaussValues(c, who, fit, mcon, std, cl) ==
    Flatten([g \in 1..Len(fit.params) |->
        IF mcon
        THEN << Val("gauss", c, who, "param", "value", g - 1, fit.params[g], cl),
                Val("gauss", c, who, "param", "std", g - 1, std[g], cl) >>
        ELSE << Val("gauss", c, who, "param", "value", g - 1, fit.params[g], cl) >>])

GaussNames1_swapped(ln, g, mcon) ==
    IF mcon
    THEN << Nm("gauss", 0, ln, g, "scale"), Nm("gauss", 0, ln, g, "scale_err"),
            Nm("gauss", 0, ln, g, "sigma"), Nm("gauss", 0, ln, g, "sigma_err"),
            Nm("gauss", 0, ln, g, "centerwave"),
            Nm("gauss", 0, ln, g, "centerwave_err") >>
    ELSE << Nm("gauss", 0, ln, g, "scale"), Nm("gauss", 0, ln, g, "sigma"),
            Nm("gauss", 0, ln, g, "centerwave") >>
\* gauss_name_tmp_tmp for component g of line ln
GaussNames1(ln, g, mcon) ==
    IF mcon
    THEN << Nm("gauss", 0, ln, g, "scale"), Nm("gauss", 0, ln, g, "scale_err"),
            Nm("gauss", 0, ln, g, "centerwave"),
            Nm("gauss", 0, ln, g, "centerwave_err"),
            Nm("gauss", 0, ln, g, "sigma"), Nm("gauss", 0, ln, g, "sigma_err") >>
    ELSE << Nm("gauss", 0, ln, g, "scale"), Nm("gauss", 0, ln, g, "centerwave"),
            Nm("gauss", 0, ln, g, "sigma") >>

\* gauss_type_tmp_tmp
GaussTypes1(mcon) ==
    IF mcon THEN <<"float", "float", "float", "float", "float", "float">>
    ELSE <<"float", "float", "float">>

\* gauss_name_tmp, gauss_type_tmp: the loops over n and nn
GaussNames(rows, mcon) ==
    LET lf == LinelistFit(rows)
    IN Flatten([n \in 1..Len(lf) |->
           Flatten([nn \in 1..lf[n].ngauss |->
               GaussNames1(lf[n].linename, nn, mcon)])])

GaussTypes(rows, mcon) ==
    LET lf == LinelistFit(rows)
    IN Flatten([n \in 1..Len(lf) |->
           Flatten([nn \in 1..lf[n].ngauss |-> GaussTypes1(mcon)])])

FurQ == <<"fwhm", "sigma", "ew", "peak", "area">>

\* fur_result_tmp: the five broad quantities, each followed by its Monte
\* Carlo standard deviation when mcon.
FurValues(c, who, prop, mcon, std, cl) ==
    Flatten([q \in 1..5 |->
        IF mcon
        THEN << Val("fur", c, who, FurQ[q], "value", -1, prop[q], cl),
                Val("fur", c, who, FurQ[q], "std", -1, std[q], cl) >>
        ELSE << Val("fur", c, who, FurQ[q], "value", -1, prop[q], cl) >>])

FurNames(br_name, mcon) ==
    Flatten([q \in 1..5 |->
        IF mcon
        THEN << Nm("fur", 0, br_name, 0, FurQ[q]),
                Nm("fur", 0, br_name, 0, FurQ[q] \o "_err") >>
        ELSE << Nm("fur", 0, br_name, 0, FurQ[q]) >>])

FurTypes(mcon) == [k \in 1..(IF mcon THEN 10 ELSE 5) |-> "float"]

----------------------------------------------------------------------------
(* new_line_mc, lines 569-644: the pure parts *)

\* 'br' not in line and 'na' not in line, for the names of the catalog.
Contains(name, sub) ==
    CASE sub = "br" -> name \in {"Hb_br", "MgII_br"}
      [] sub = "na" -> name \in {"MgII_na"}
      [] OTHER -> FALSE

IsNarrowKey(name) == ~Contains(name, "br") /\ ~Contains(name, "na")

\* linenames: the line names of the rows of the complex.
LineNames(rows) ==
    LET lf == LinelistFit(rows)
    IN [i \in 1..Len(lf) |-> lf[i].linename]

NarrowKeys(rows) ==
    {LineNames(rows)[i] : i \in {j \in 1..Cardinality(rows) :
                                    IsNarrowKey(LineNames(rows)[j])}}

AllLineName_once(rows) == LineNames(rows)
\* all_line_name: each line name once per Gaussian component.
AllLineName(rows) ==
    LET ng == NgaussFit(rows)
        nm == LineNames(rows)
    IN Flatten([n \in 1..Len(nm) |-> [nn \in 1..ng[n] |-> nm[n]]])

\* emp_dict
EmpDict == [fwhm |-> <<>>, sigma |-> <<>>, ew |-> <<>>, peak |-> <<>>, area |-> <<>>]

\* flux = y + np.random.randn(len(y))*err with one noise draw nz per trial
Perturbed(y, err, nz) == [w \in DOMAIN y |-> y[w] + nz * err[w]]

\* The try block for one narrow line in one trial: the entry of the line
\* with the sample appended, or unchanged when the lookup raises.
NarrowSample(rows, entry, line, params) ==
    LET aln  == AllLineName(rows)
        hits == {i \in 1..Len(aln) : aln[i] = line}
    IN IF hits = {} THEN entry
       ELSE LET par_ind == (SetMin(hits) - 1) * 3
                center  == (CHOOSE k \in Rows : linelist[k].linename = line)
                na_tmp  == line_prop(linelist[center].lambda,
                                     SubSeq(params, par_ind + 1, par_ind + 3),
                                     "narrow")
            IN [fwhm  |-> Append(entry.fwhm, na_tmp[1]),
                sigma |-> Append(entry.sigma, na_tmp[2]),
                ew    |-> Append(entry.ew, na_tmp[3]),
                peak  |-> Append(entry.peak, na_tmp[4]),
                area  |-> Append(entry.area, na_tmp[5])]

\* np.where(all_line_name==line)[0][0] raises IndexError when the line has
\* no entry in all_line_name.
LookupRaises(rows, line) ==
    LET aln == AllLineName(rows)
    IN \A i \in 1..Len(aln) : aln[i] # line

NarrowExcept_partial(entry) == [entry EXCEPT !.fwhm = Append(@, 0)]
\* The except branch (lines 629-631): 'Mismatch.' is printed and the entry
\* of the line is left as it was.
NarrowExcept(entry) == entry

TrialStart_warm(pp0, last) == last
\* params0=pp0: the start vector of the next trial, given the vector `last`
\* the previous trial ended with.
TrialStart(pp0, last) == pp0

\* all_para_std
AllParaStd(cols, n) ==
    [st \in 1..n |-> Std([t \in 1..Len(cols) |-> cols[t][st]])]

\* all_fwhm.std(), all_sigma.std(), all_ew.std(), all_peak.std(), all_area.std()
BroadStd(broad) ==
    [q \in 1..5 |-> Std([t \in 1..Len(broad) |-> broad[t][q]])]

\* dict.update
DictUpdate(old, new) ==
    [l \in DOMAIN old \cup DOMAIN new |->
        IF l \in DOMAIN new THEN new[l] ELSE old[l]]

NoMc ==
    [rows |-> {}, y |-> <<>>, err |-> <<>>, pp0 |-> <<>>, pp_limits |-> <<>>,
     start |-> <<>>, tra |-> 0, nrefit |-> 0, all_para_1comp |-> <<>>,
     broad |-> <<>>, na_all_dict |-> <<>>, mismatch |-> {}]

----------------------------------------------------------------------------
(* The state machine *)

\* The accumulators as lines 408-417 create them.
FreshLoc(sel) ==
    [comp_result |-> <<>>, comp_result_type |-> <<>>, comp_result_name |-> <<>>,
     gauss_result |-> <<>>, gauss_result_type |-> <<>>, gauss_result_name |-> <<>>,
     fur_result |-> <<>>, fur_result_type |-> <<>>, fur_result_name |-> <<>>,
     all_comp_range |-> <<>>,
     uniq_linecomp_sort |-> UniqLinecompSort(sel),
     allcompcenter |-> AllCompCenter(sel),
     ncomp |-> Cardinality(UniqNames(sel))]

NoLoc ==
    [comp_result |-> <<>>, comp_result_type |-> <<>>, comp_result_name |-> <<>>,
     gauss_result |-> <<>>, gauss_result_type |-> <<>>, gauss_result_name |-> <<>>,
     fur_result |-> <<>>, fur_result_type |-> <<>>, fur_result_name |-> <<>>,
     all_comp_range |-> <<>>, uniq_linecomp_sort |-> <<>>,
     allcompcenter |-> <<>>, ncomp |-> 0]

\* The object before the first call: no line-fit attribute holds anything.
NoSelf ==
    [assigned |-> FALSE, comp_result |-> <<>>, gauss_result |-> <<>>,
     gauss_result_name |-> <<>>, line_result |-> <<>>,
     line_result_type |-> <<>>, line_result_name |-> <<>>, ncomp |-> 0,
     all_comp_range |-> <<>>, uniq_linecomp_sort |-> <<>>,
     na_all_dict |-> <<>>]

\* The object as the constructor leaves it when no path and no plate
\* identifier are given, and the frame of _DoContiFit when it is not running.
\* None stands for Python's None where an integer identifier is expected.
None == -1
NoObj == [path |-> "None", plateid |-> None]
NoConti ==
    [at |-> "out", plateid |-> None, mjd |-> None, fiberid |-> None,
     tmp_selfpath |-> "None", outcome |-> "none", path_at_call |-> "None"]

\* No figure has been drawn.
NoFig == [at |-> "none", mc_flag |-> 0, triples |-> <<>>, panels |-> <<>>]

\* No call of _DoLineFit has been made.
LineFitIdle ==
    /\ pc = "idle"
    /\ call = 0
    /\ wave = {}
    /\ dips = {}
    /\ MC = FALSE
    /\ n_trails = 0
    /\ tie_lambda = FALSE
    /\ tie_width = FALSE
    /\ tie_flux_1 = FALSE
    /\ tie_flux_2 = FALSE
    /\ ii = 0
    /\ loc = NoLoc
    /\ ind_line = {}
    /\ tie = NoTie
    /\ line_fit = NoFit
    /\ dof_fix = 0
    /\ mc = NoMc
    /\ self = NoSelf
    /\ visits = <<>>

Init ==
    /\ LineFitIdle
    /\ obj = NoObj
    /\ conti = NoConti
    /\ fig = NoFig

\* The arguments and options one call of Fit hands to _DoLineFit.
AllConfigs ==
    [wave : Spectra, dips : DipSets, MC : BOOLEAN, n_trails : 0..MaxTrails,
     tl : BOOLEAN, tw : BOOLEAN, tf1 : BOOLEAN, tf2 : BOOLEAN]

\* The options offered when the object is fitted repeatedly.
RepeatConfigs ==
    [wave : {3000..3005, 2789..2804, (2789..2804) \cup (4853..4873)},
     dips : {{}, {2791, 2792}}, MC : BOOLEAN, n_trails : {1},
     tl : {TRUE}, tw : {TRUE}, tf1 : {TRUE}, tf2 : {TRUE}]

TakeInputs(cfg) ==
    /\ wave' = cfg.wave
    /\ dips' = cfg.dips
    /\ MC' = cfg.MC
    /\ n_trails' = cfg.n_trails
    /\ tie_lambda' = cfg.tl
    /\ tie_width' = cfg.tw
    /\ tie_flux_1' = cfg.tf1
    /\ tie_flux_2' = cfg.tf2
    /\ call' = call + 1
    /\ UNCHANGED contivars

\* Lines 388-418: some catalog line is in range; the loop is set up.
EnterLoop(cfg) ==
    LET sel == ind_kind_line(cfg.wave)
    IN /\ sel # {}
       /\ TakeInputs(cfg)
       /\ pc' = "loop"
       /\ ii' = 0
       /\ loc' = FreshLoc(sel)
       /\ self' = [self EXCEPT !.na_all_dict = <<>>]
       /\ visits' = [i \in 1..Cardinality(UniqNames(sel)) |-> 0]
       /\ UNCHANGED <<ind_line, tie, line_fit, dof_fix, mc>>

\* Lines 543-565: no catalog line is in range.
EnterEmpty(cfg) ==
    /\ ind_kind_line(cfg.wave) = {}
    /\ TakeInputs(cfg)
    /\ pc' = "done"
    /\ self' = [self EXCEPT !.assigned = TRUE, !.comp_result = <<>>,
                            !.gauss_result = <<>>, !.gauss_result_name = <<>>,
                            !.line_result = <<>>, !.line_result_type = <<>>,
                            !.line_result_name = <<>>, !.ncomp = 0,
                            !.all_comp_range = <<>>,
                            !.uniq_linecomp_sort = <<>>]
    /\ loc' = NoLoc
    /\ visits' = <<>>
    /\ UNCHANGED <<ii, ind_line, tie, line_fit, dof_fix, mc>>

\* The complex of loop index ii (0-based) and what lines 421-437 derive.
CurName == loc.uniq_linecomp_sort[ii + 1]
CurCenter == loc.allcompcenter[ii + 1]
CurRows == IndLine(CurName, ind_kind_line(wave))
CurIndN == IndN(wave, dips, CompRange(CurRows))

Prologue_stale ==
    /\ ind_line' = CurRows
    /\ tie' = tie
    /\ visits' = [visits EXCEPT ![ii + 1] = @ + 1]
\* Lines 430-434, done for every complex: the range is recorded and the tie
\* resolver runs.
Prologue ==
    /\ ind_line' = CurRows
    /\ tie' = do_tie_line(CurRows)
    /\ visits' = [visits EXCEPT ![ii + 1] = @ + 1]

\* Lines 466-534: the three slices of one fitted complex are appended.
Packed(l, c, rows, name, center, fit, dfix, mcon, pstd, bstd, cl) ==
    [l EXCEPT
        !.all_comp_range = @ \o CompRange(rows),
        !.comp_result = @ \o CompValues(c, rows, fit, dfix, cl),
        !.comp_result_name = @ \o CompNames(c),
        !.comp_result_type = @ \o CompTypes,
        !.gauss_result = @ \o GaussValues(c, name, fit, mcon, pstd, cl),
        !.gauss_result_type = @ \o GaussTypes(rows, mcon),
        !.gauss_result_name = @ \o GaussNames(rows, mcon),
        !.fur_result = @ \o FurValues(c, name, line_prop(center, fit.params, "broad"),
                                      mcon, bstd, cl),
        !.fur_result_type = @ \o FurTypes(mcon),
        !.fur_result_name = @ \o FurNames(name, mcon)]

\* Solver outcomes of the main fit: converged, or stopped at maxiter.
SolverOutcomes == {<<1, 0>>, <<5, 1>>}

AfterSkip_retry(i) == i
\* The else branch (lines 536-537) only prints; the for loop moves on.
AfterSkip(i) == i + 1

\* Lines 536-537: too few pixels, the complex is skipped.
SkipComplex ==
    /\ pc = "loop"
    /\ ii < loc.ncomp
    /\ ~EnoughPixels(Cardinality(CurIndN))
    /\ Prologue
    /\ loc' = [loc EXCEPT !.all_comp_range = @ \o CompRange(CurRows)]
    /\ ii' = AfterSkip(ii)
    /\ UNCHANGED <<pc, call, inputs, line_fit, dof_fix, mc, self, contivars>>

\* Lines 439-534 without Monte Carlo: fit and pack.
FitComplex ==
    /\ pc = "loop"
    /\ ii < loc.ncomp
    /\ EnoughPixels(Cardinality(CurIndN))
    /\ ~McEnabled(MC, n_trails)
    /\ Prologue
    /\ \E o \in SolverOutcomes :
        LET fit  == do_line_kmpfit(CurRows, Cardinality(CurIndN), o[1], o[2])
            dfix == DofFix(do_tie_line(CurRows), tie_lambda, tie_width,
                           tie_flux_1, tie_flux_2)
        IN /\ line_fit' = fit
           /\ dof_fix' = dfix
           /\ loc' = Packed(loc, ii, CurRows, CurName, CurCenter, fit, dfix,
                            FALSE, <<>>, <<>>, call)
    /\ ii' = ii + 1
    /\ UNCHANGED <<pc, call, inputs, mc, self, contivars>>

\* Lines 439-448 and 572-589: fit, then enter new_line_mc.
FitComplexMc ==
    /\ pc = "loop"
    /\ ii < loc.ncomp
    /\ EnoughPixels(Cardinality(CurIndN))
    /\ McEnabled(MC, n_trails)
    /\ Prologue
    /\ \E o \in SolverOutcomes :
        line_fit' = do_line_kmpfit(CurRows, Cardinality(CurIndN), o[1], o[2])
    /\ mc' = [rows |-> CurRows,
              y |-> [w \in CurIndN |-> IF w \in dips THEN -2 ELSE 3],
              err |-> [w \in CurIndN |-> 1],
              pp0 |-> LineFitIni(CurRows),
              pp_limits |-> LineFitPar(CurRows),
              start |-> LineFitIni(CurRows),
              tra |-> 0, nrefit |-> 0, all_para_1comp |-> <<>>, broad |-> <<>>,
              na_all_dict |-> [l \in NarrowKeys(CurRows) |-> EmpDict],
              mismatch |-> {}]
    /\ pc' = "mc"
    /\ UNCHANGED <<call, inputs, ii, loc, dof_fix, self, contivars>>

\* Lines 591-631: one trial of new_line_mc.  raised is the set of narrow
\* lines for which the try block (lines 618-628) raises in this trial;
\* mismatch records for which lines 'Mismatch.' was printed.
Trial(raised) ==
    /\ pc = "mc"
    /\ mc.tra < n_trails
    /\ \E nz \in {-1, 1}, sh \in Shifts :
        LET flux   == Perturbed(mc.y, mc.err, nz)
            params == Fitted(mc.start, sh)
            bad    == raised \cup {l \in DOMAIN mc.na_all_dict :
                                      LookupRaises(mc.rows, l)}
        IN mc' = [mc EXCEPT
                    !.tra = @ + 1,
                    !.nrefit = @ + 1,
                    !.start = TrialStart(mc.pp0, params),
                    !.all_para_1comp = Append(@, params),
                    !.broad = Append(@, line_prop(CurCenter, params, "broad")),
                    !.na_all_dict =
                        [l \in DOMAIN @ |->
                            IF l \in bad THEN NarrowExcept(@[l])
                            ELSE NarrowSample(mc.rows, @[l], l, params)],
                    !.mismatch = bad]
    /\ UNCHANGED <<pc, call, inputs, ii, loc, ind_line, tie, line_fit, dof_fix,
                   self, visits, contivars>>

\* A trial in which no try block raises.
McTrial == Trial({})

\* A trial in which the try block raises for some of the narrow lines.
McTrialRaise ==
    /\ pc = "mc"
    /\ \E raised \in (SUBSET DOMAIN mc.na_all_dict) \ {{}} : Trial(raised)

\* Lines 633-644 and 449-534: new_line_mc returns, the complex is packed.
McReturn ==
    /\ pc = "mc"
    /\ mc.tra >= n_trails
    /\ LET pstd == AllParaStd(mc.all_para_1comp, Len(mc.pp0))
           bstd == BroadStd(mc.broad)
           dfix == DofFix(tie, tie_lambda, tie_width, tie_flux_1, tie_flux_2)
           tagged == [l \in DOMAIN mc.na_all_dict |->
                        [call |-> call, samples |-> mc.na_all_dict[l]]]
       IN /\ self' = [self EXCEPT !.na_all_dict = DictUpdate(@, tagged)]
          /\ dof_fix' = dfix
          /\ loc' = Packed(loc, ii, mc.rows, CurName, CurCenter, line_fit, dfix,
                           TRUE, pstd, bstd, call)
    /\ pc' = "loop"
    /\ ii' = ii + 1
    /\ UNCHANGED <<call, inputs, ind_line, tie, line_fit, mc, visits, contivars>>

\* Lines 539-541 and 555-565: the blocks are joined and stored on the object.
Finish ==
    /\ pc = "loop"
    /\ ii >= loc.ncomp
    /\ self' = [self EXCEPT
            !.assigned = TRUE,
            !.comp_result = loc.comp_result,
            !.gauss_result = loc.gauss_result,
            !.gauss_result_name = loc.gauss_result_name,
            !.line_result = loc.comp_result \o loc.gauss_result \o loc.fur_result,
            !.line_result_type = loc.comp_result_type \o loc.gauss_result_type
                                    \o loc.fur_result_type,
            !.line_result_name = loc.comp_result_name \o loc.gauss_result_name
                                    \o loc.fur_result_name,
            !.ncomp = loc.ncomp,
            !.all_comp_range = loc.all_comp_range,
            !.uniq_linecomp_sort = loc.uniq_linecomp_sort]
    /\ pc' = "done"
    /\ UNCHANGED <<call, inputs, ii, loc, ind_line, tie, line_fit, dof_fix, mc,
                   visits, contivars>>

\* One call of _DoLineFit on a fresh object.
StartLoop == pc = "idle" /\ \E cfg \in AllConfigs : EnterLoop(cfg)
NoLineToFit == pc = "idle" /\ \E cfg \in AllConfigs : EnterEmpty(cfg)

Steps ==
    \/ SkipComplex
    \/ FitComplex
    \/ FitComplexMc
    \/ McTrial
    \/ McReturn
    \/ Finish

Next == StartLoop \/ NoLineToFit \/ Steps

Spec == Init /\ [][Next]_vars

\* Repeated calls on the same object.
CallLoop ==
    /\ pc \in {"idle", "done"}
    /\ call < MaxCalls
    /\ \E cfg \in RepeatConfigs : EnterLoop(cfg)

CallEmpty ==
    /\ pc \in {"idle", "done"}
    /\ call < MaxCalls
    /\ \E cfg \in RepeatConfigs : EnterEmpty(cfg)

NextCalls == CallLoop \/ CallEmpty \/ Steps

SpecCalls == Init /\ [][NextCalls]_vars

----------------------------------------------------------------------------
(* _PlotFig, lines 261-305, with linefit == True: what it reads from the     *)
(* results of _DoLineFit                                                    *)

\* Lines 265-268: the stride over gauss_result.
mc_flag(mcflag) == IF mcflag THEN 2 ELSE 1

\* Lines 274-281: for each p in range(int(len/mc_flag/3)) the three entries
\* temp_gauss_result[p*3*mc_flag:(p+1)*3*mc_flag:mc_flag] handed to Onegauss.
PlotTriples(gauss, flag) ==
    [p \in 1..((Len(gauss) \div flag) \div 3) |->
        [k \in 1..3 |-> gauss[(p - 1) * 3 * flag + (k - 1) * flag + 1]]]

\* Line 304: self.comp_result[c*6+3], or IndexError beyond the end.
IndexError == [raised |-> "IndexError"]
PlotChi2(comp, c) ==
    IF c * 6 + 3 < Len(comp) THEN comp[c * 6 + 3 + 1] ELSE IndexError

\* Lines 290-305: panel c shows the complex uniq_linecomp_sort[c] over
\* all_comp_range[2*c:2*c+2] with the reduced chi-square read at c*6+3.
PlotPanel(names, ranges, comp, c) ==
    [tname |-> names[c + 1],
     xlim |-> SubSeq(ranges, 2 * c + 1, 2 * c + 2),
     chi2 |-> PlotChi2(comp, c)]

\* The figure of a finished line fit; drawing stops at the first panel
\* whose read raises.
PlotFig ==
    /\ pc = "done"
    /\ fig.at = "none"
    /\ LET panels == [c \in 1..self.ncomp |->
                        PlotPanel(self.uniq_linecomp_sort, self.all_comp_range,
                                  self.comp_result, c - 1)]
           bad == {c \in 1..self.ncomp : panels[c].chi2 = IndexError}
       IN fig' = [at |-> IF bad = {} THEN "shown" ELSE "raised",
                  mc_flag |-> mc_flag(MC),
                  triples |-> PlotTriples(self.gauss_result, mc_flag(MC)),
                  panels |-> IF bad = {} THEN panels
                             ELSE SubSeq(panels, 1, SetMin(bad))]
    /\ UNCHANGED <<pc, call, inputs, ii, loc, ind_line, tie, line_fit, dof_fix,
                   mc, self, visits, obj, conti>>

\* The fits that are plotted.
PlotConfigs ==
    [wave : Spectra, dips : DipSets, MC : BOOLEAN, n_trails : 0..1,
     tl : {TRUE}, tw : {TRUE}, tf1 : {TRUE}, tf2 : {TRUE}]

FitToPlot ==
    /\ pc = "idle"
    /\ \E cfg \in PlotConfigs : EnterLoop(cfg) \/ EnterEmpty(cfg)

NextPlot == FitToPlot \/ Steps \/ PlotFig

SpecPlot == Init /\ [][NextPlot]_vars

----------------------------------------------------------------------------
(* _DoContiFit, lines 209-221 *)

\* The module-level datapath (line 26) and the paths a caller may give.
datapath == "PyQSOFit/"
Paths == {"None", "/data/", datapath}

\* The objects the constructor can leave (lines 75 and 78).
Objects == [path : Paths, plateid : {None, 7}]

\* The plateid, mjd and fiberid arguments.
IdArgs == [plateid : {None, 1}, mjd : {None, 2}, fiberid : {None, 3}]

\* Lines 210-215: each identifier is replaced by 0 when self.plateid is None.
IdOrZero(self_plateid, id) == IF self_plateid = None THEN 0 ELSE id

RestoredPath_kept(tmp, cur) == cur
\* Line 221: self.path = tmp_selfpath
RestoredPath(tmp, cur) == tmp

\* Lines 210-217: the identifiers are normalised, the path is saved and
\* replaced by datapath.
ContiCall ==
    /\ conti.at = "out"
    /\ \E a \in IdArgs :
         conti' = [at |-> "super",
                   plateid |-> IdOrZero(obj.plateid, a.plateid),
                   mjd |-> IdOrZero(obj.plateid, a.mjd),
                   fiberid |-> IdOrZero(obj.plateid, a.fiberid),
                   tmp_selfpath |-> obj.path,
                   outcome |-> "none",
                   path_at_call |-> obj.path]
    /\ obj' = [obj EXCEPT !.path = datapath]
    /\ UNCHANGED <<pc, call, inputs, ii, loc, ind_line, tie, line_fit, dof_fix,
                   mc, self, visits, fig>>

\* Line 219: the inherited continuum fit returns a value.
ContiSuperReturns ==
    /\ conti.at = "super"
    /\ conti' = [conti EXCEPT !.at = "finally", !.outcome = "return"]
    /\ UNCHANGED <<pc, call, inputs, ii, loc, ind_line, tie, line_fit, dof_fix,
                   mc, self, visits, fig, obj>>

\* Line 219: the inherited continuum fit raises.
ContiSuperRaises ==
    /\ conti.at = "super"
    /\ conti' = [conti EXCEPT !.at = "finally", !.outcome = "raise"]
    /\ UNCHANGED <<pc, call, inputs, ii, loc, ind_line, tie, line_fit, dof_fix,
                   mc, self, visits, fig, obj>>

\* Lines 220-221: the finally clause, then the value or the exception
\* leaves _DoContiFit.
ContiFinally ==
    /\ conti.at = "finally"
    /\ obj' = [obj EXCEPT !.path = RestoredPath(conti.tmp_selfpath, @)]
    /\ conti' = [conti EXCEPT !.at = "out"]
    /\ UNCHANGED <<pc, call, inputs, ii, loc, ind_line, tie, line_fit, dof_fix,
                   mc, self, visits, fig>>

InitConti ==
    /\ LineFitIdle
    /\ obj \in Objects
    /\ conti = NoConti
    /\ fig = NoFig

NextConti == ContiCall \/ ContiSuperReturns \/ ContiSuperRaises \/ ContiFinally

SpecConti == InitConti /\ [][NextConti]_vars

\* One call with Monte Carlo errors in which try blocks may raise.
McConfigs ==
    [wave : {(2789..2804) \cup (4853..4873)}, dips : {{}, {2791, 2792}},
     MC : {TRUE}, n_trails : 1..MaxTrails,
     tl : {TRUE}, tw : {TRUE}, tf1 : {TRUE}, tf2 : {TRUE}]

StartMc == pc = "idle" /\ \E cfg \in McConfigs : EnterLoop(cfg)

NextMc ==
    \/ StartMc
    \/ SkipComplex
    \/ FitComplexMc
    \/ McTrial
    \/ McTrialRaise
    \/ McReturn
    \/ Finish

SpecMc == Init /\ [][NextMc]_vars

----------------------------------------------------------------------------
(* Vocabulary of the properties *)

\* The number of valid pixels in the window of the complex at loop index c.
PixelsOf(c) ==
    LET rows == {k \in Rows : linelist[k].compname = loc.uniq_linecomp_sort[c + 1]}
        first == linelist[SetMin(rows)]
    IN Cardinality({w \in wave : /\ w > first.minwav
                                 /\ w < first.maxwav
                                 /\ ~(InAbsorptionRange(w) /\ w \in dips)})

\* The Gaussian components of the complex at loop index c.
ComponentsOf(c) ==
    LET rows == {k \in Rows : linelist[k].compname = loc.uniq_linecomp_sort[c + 1]}
    IN SumSeq([i \in 1..Cardinality(rows) |-> linelist[Ascending(rows)[i]].ngauss])

\* The entries of a result vector that belong to the complex at index c.
RECURSIVE SliceOf(_, _)
SliceOf(vec, c) ==
    IF vec = <<>> THEN <<>>
    ELSE (IF Head(vec).comp = c THEN <<Head(vec)>> ELSE <<>>) \o SliceOf(Tail(vec), c)

\* The loop indices already processed in the running or finished call.
Processed == IF pc \in {"loop", "mc", "done"} THEN 0..(ii - 1) ELSE {}

TheNine ==
    <<loc.comp_result, loc.comp_result_type, loc.comp_result_name,
      loc.gauss_result, loc.gauss_result_type, loc.gauss_result_name,
      loc.fur_result, loc.fur_result_type, loc.fur_result_name>>

----------------------------------------------------------------------------
(* C1 *)

C1_SkipStep ==
    (pc = "loop" /\ ii < loc.ncomp /\ PixelsOf(ii) <= 10)
        => /\ TheNine' = TheNine
           /\ pc' = "loop"
           /\ ii' = ii + 1

C1_AllProcessed ==
    (pc = "done" /\ loc.ncomp > 0)
        => \A c \in 0..(loc.ncomp - 1) :
              /\ visits[c + 1] = 1
              /\ PixelsOf(c) <= 10 =>
                    /\ SliceOf(loc.comp_result, c) = <<>>
                    /\ SliceOf(loc.gauss_result, c) = <<>>
                    /\ SliceOf(loc.fur_result, c) = <<>>
              /\ PixelsOf(c) > 10 => Len(SliceOf(loc.comp_result, c)) = 6

\* C1: a complex whose window holds 10 or fewer valid pixels is skipped: the
\* step that handles it leaves the comp, gauss and fur vectors and their
\* name and type vectors as they were and moves on to the next complex, and
\* at the end every complex has been handled once, the skipped ones with no
\* entries and the others with theirs.
C1_SkippedComplexAddsNothing == [][C1_SkipStep]_vars /\ []C1_AllProcessed

\* A skipped first complex followed by a fitted second one.
C1_Witness ==
    /\ pc = "done"
    /\ loc.ncomp = 2
    /\ PixelsOf(0) = 10
    /\ Len(SliceOf(loc.comp_result, 0)) = 0
    /\ Len(SliceOf(loc.comp_result, 1)) = 6

----------------------------------------------------------------------------
(* C2 *)

\* value, stddev, value, stddev, ...: parameter k and its deviation at 2k-1, 2k.
Interleaved(sl) ==
    /\ Len(sl) % 2 = 0
    /\ \A k \in 1..(Len(sl) \div 2) :
          /\ sl[2 * k - 1].kind = "value" /\ sl[2 * k - 1].idx = k - 1
          /\ sl[2 * k].kind = "std" /\ sl[2 * k].idx = k - 1

AllValues(sl) == \A k \in 1..Len(sl) : sl[k].kind = "value" /\ sl[k].idx = k - 1

\* C2 as stated: with at least 10 valid pixels the complex contributes
\* 3 x (components) entries to gauss_result without Monte Carlo and twice
\* that, interleaved, whenever the Monte Carlo option is on.
C2_AsStated ==
    \A c \in Processed :
        PixelsOf(c) >= 10 =>
            LET sl == SliceOf(loc.gauss_result, c)
            IN IF MC THEN Len(sl) = 6 * ComponentsOf(c) /\ Interleaved(sl)
               ELSE Len(sl) = 3 * ComponentsOf(c) /\ AllValues(sl)

\* C2 amended: with more than 10 valid pixels the complex contributes
\* 3 x (components) entries to gauss_result, and twice that, interleaved
\* value, stddev, exactly when Monte Carlo is on and n_trails > 0.
C2_GaussLength ==
    \A c \in Processed :
        PixelsOf(c) > 10 =>
            LET sl == SliceOf(loc.gauss_result, c)
            IN IF MC /\ n_trails > 0
               THEN Len(sl) = 6 * ComponentsOf(c) /\ Interleaved(sl)
               ELSE Len(sl) = 3 * ComponentsOf(c) /\ AllValues(sl)

\* A fitted three-component complex with Monte Carlo on: 18 entries.
C2_Witness ==
    /\ pc = "done"
    /\ MC /\ n_trails = 2
    /\ \E c \in Processed :
          /\ PixelsOf(c) = 11
          /\ ComponentsOf(c) = 3
          /\ Len(SliceOf(loc.gauss_result, c)) = 18

----------------------------------------------------------------------------
(* C3 *)

\* The (line, component) that parameter index idx (0-based) of complex who
\* belongs to, and which of scale, centerwave, sigma it is: the layout
\* _PlotFig decodes (lines 274-281).
LineOfParam(who, idx) ==
    LET rows == Ascending({k \in Rows : linelist[k].compname = who})
        before(i) == SumSeq([j \in 1..(i - 1) |-> linelist[rows[j]].ngauss])
        i == CHOOSE j \in 1..Len(rows) :
                /\ idx \div 3 >= before(j)
                /\ idx \div 3 < before(j) + linelist[rows[j]].ngauss
    IN <<linelist[rows[i]].linename, (idx \div 3) - before(i) + 1>>

QuantityOfParam(idx) ==
    CASE idx % 3 = 0 -> "scale" [] idx % 3 = 1 -> "centerwave" [] OTHER -> "sigma"

\* The value v, the type tag t and the name n describe the same quantity.
Describes(v, t, n) ==
    /\ v.blk = n.blk
    /\ CASE v.blk = "comp" ->
              /\ n.num = v.comp + 1
              /\ <<v.q, n.q, t>> \in
                    { <<"complex_name", "complex_name", "str">>,
                      <<"status", "line_status", "int">>,
                      <<"chi2_min", "line_min_chi2", "float">>,
                      <<"red_chi2", "line_red_chi2", "float">>,
                      <<"niter", "niter", "int">>,
                      <<"dof", "ndof", "int">> }
         [] v.blk = "gauss" ->
              /\ t = "float"
              /\ <<n.line, n.g>> = LineOfParam(v.who, v.idx)
              /\ n.q = (IF v.kind = "std" THEN QuantityOfParam(v.idx) \o "_err"
                        ELSE QuantityOfParam(v.idx))
         [] OTHER ->
              /\ t = "float"
              /\ n.line = v.who
              /\ n.q = (IF v.kind = "std" THEN v.q \o "_err" ELSE v.q)

Aligned(vals, types, names) ==
    /\ Len(vals) = Len(types)
    /\ Len(vals) = Len(names)
    /\ \A i \in 1..Len(vals) : Describes(vals[i], types[i], names[i])

\* C3: when _DoLineFit ends, line_result, line_result_type and
\* line_result_name have one length and at every index the value, the type
\* tag and the name describe the same quantity; so do the comp, gauss and
\* fur blocks taken separately.
C3_ResultsAligned ==
    pc = "done" =>
        /\ Aligned(self.line_result, self.line_result_type, self.line_result_name)
        /\ Aligned(loc.comp_result, loc.comp_result_type, loc.comp_result_name)
        /\ Aligned(loc.gauss_result, loc.gauss_result_type, loc.gauss_result_name)
        /\ Aligned(loc.fur_result, loc.fur_result_type, loc.fur_result_name)

\* Two complexes, one skipped and one fitted with Monte Carlo, the fitted
\* one holding a two-component line: 6 + 18 + 10 aligned entries.
C3_Witness ==
    /\ pc = "done"
    /\ MC /\ n_trails > 0
    /\ loc.ncomp = 2
    /\ Len(self.line_result) = 34
    /\ \E i \in 1..Len(self.line_result_name) : self.line_result_name[i].g = 2

----------------------------------------------------------------------------
(* C4 *)

GroupCount(s) == IF Cardinality(s) <= 1 THEN 0 ELSE Cardinality(s) - 1

\* The correction with each of the four flags switching its own tie type.
FourFlagDof ==
    (IF tie_lambda THEN GroupCount(tie.vindex1) + GroupCount(tie.vindex2) ELSE 0)
  + (IF tie_width THEN GroupCount(tie.windex1) + GroupCount(tie.windex2) ELSE 0)
  + (IF tie_flux_1 THEN GroupCount(tie.findex1) ELSE 0)
  + (IF tie_flux_2 THEN GroupCount(tie.findex2) ELSE 0)

\* The last complex the loop handled was fitted, so tie and dof_fix are its.
LastWasFitted ==
    /\ pc \in {"loop", "done"}
    /\ ii > 0
    /\ PixelsOf(ii - 1) > 10

\* C4: dof_fix of a fitted complex is never negative and is the sum, over
\* the tie types enabled by tie_lambda, tie_width, tie_flux_1 and tie_flux_2,
\* of (group size - 1) per index set of that type (0 for an empty or
\* singleton set), each flag governing its own type only.
C4_DofFixFourFlags ==
    LastWasFitted => dof_fix >= 0 /\ dof_fix = FourFlagDof

----------------------------------------------------------------------------
(* C5 *)

\* The rest wavelength a complex is ordered by: that of its first catalog
\* row inside the observed range.
CenterOf(name) ==
    LET lo == SetMin(wave)
        hi == SetMax(wave)
    IN linelist[SetMin({k \in Rows : /\ linelist[k].compname = name
                                     /\ linelist[k].lambda > lo
                                     /\ linelist[k].lambda < hi})].lambda

NonDecreasingComp(vec) ==
    \A i, j \in 1..Len(vec) : i < j => vec[i].comp <= vec[j].comp

NoDuplicate(vec) ==
    \A i, j \in 1..Len(vec) : i < j => vec[i] # vec[j]

IsPrefix(a, b) == Len(a) <= Len(b) /\ SubSeq(b, 1, Len(a)) = a

C5_Order ==
    pc \in {"loop", "mc", "done"} =>
        /\ \A i, j \in 1..loc.ncomp :
              i < j => CenterOf(loc.uniq_linecomp_sort[i])
                          <= CenterOf(loc.uniq_linecomp_sort[j])
        /\ \A i \in 1..loc.ncomp :
              loc.allcompcenter[i] = CenterOf(loc.uniq_linecomp_sort[i])
        /\ NonDecreasingComp(loc.comp_result) /\ NoDuplicate(loc.comp_result)
        /\ NonDecreasingComp(loc.gauss_result) /\ NoDuplicate(loc.gauss_result)
        /\ NonDecreasingComp(loc.fur_result) /\ NoDuplicate(loc.fur_result)
        /\ \A k \in 1..Len(loc.comp_result) :
              loc.comp_result[k].who = loc.uniq_linecomp_sort[loc.comp_result[k].comp + 1]

C5_Blocks ==
    pc = "done" =>
        /\ self.line_result = loc.comp_result \o loc.gauss_result \o loc.fur_result
        /\ self.comp_result = loc.comp_result
        /\ self.gauss_result = loc.gauss_result

C5_AppendOnly ==
    (pc \in {"loop", "mc"}) =>
        /\ IsPrefix(loc.comp_result, loc'.comp_result)
        /\ IsPrefix(loc.gauss_result, loc'.gauss_result)
        /\ IsPrefix(loc.fur_result, loc'.fur_result)

\* C5: complexes are processed in ascending rest-wavelength order; the comp,
\* gauss and fur vectors are the per-complex slices in that order;
\* line_result is comp, then gauss, then fur; an appended slice is never
\* reordered, removed or duplicated.
C5_ConcatenationInOrder ==
    []C5_Order /\ []C5_Blocks /\ [][C5_AppendOnly]_vars

\* Two fitted complexes: MgII (2798) before Hb (4862).
C5_Witness ==
    /\ pc = "done"
    /\ Len(loc.comp_result) = 12
    /\ loc.uniq_linecomp_sort = <<"MgII", "Hb">>
    /\ loc.comp_result[1].who = "MgII"
    /\ loc.comp_result[7].who = "Hb"

----------------------------------------------------------------------------
(* C6 *)

\* The catalog rows whose rest wavelength is strictly inside the observed range.
RowsInRange ==
    LET lo == SetMin(wave)
        hi == SetMax(wave)
    IN {k \in Rows : linelist[k].lambda > lo /\ linelist[k].lambda < hi}

\* Every in-range row belongs to exactly one complex of the loop.
InRangeRowsCovered ==
    \A k \in RowsInRange :
        Cardinality({i \in 1..loc.ncomp :
                        loc.uniq_linecomp_sort[i] = linelist[k].compname}) = 1

\* The loop has handed the rows ind_line of complex ii - 1 to the resolver.
HandedOver == pc \in {"loop", "mc", "done"} /\ loc.ncomp > 0 /\ visits[1] > 0

\* The loop index of the complex whose rows ind_line holds.
LastIndex == IF pc = "mc" THEN ii ELSE ii - 1

\* C6 as stated: the complexes partition the in-range rows, and no complex
\* handed to the tie resolver and the fitter holds a row whose rest
\* wavelength is outside the observed range.
C6_AsStated ==
    /\ pc \in {"loop", "mc", "done"} /\ loc.ncomp > 0 => InRangeRowsCovered
    /\ HandedOver => ind_line \subseteq RowsInRange

\* C6 amended: the complexes are exactly the complex names that have a row
\* strictly inside the observed range, each once, so every in-range row
\* belongs to exactly one complex; the complex handed to the tie resolver
\* and the fitter is the set of all catalog rows with that complex name,
\* in range or not.
C6_ComplexesByName ==
    /\ pc \in {"loop", "mc", "done"} /\ loc.ncomp > 0 =>
          /\ InRangeRowsCovered
          /\ {loc.uniq_linecomp_sort[i] : i \in 1..loc.ncomp}
                = {linelist[k].compname : k \in RowsInRange}
          /\ Len(loc.uniq_linecomp_sort) = loc.ncomp
    /\ HandedOver =>
          ind_line = {k \in Rows :
                        linelist[k].compname = loc.uniq_linecomp_sort[LastIndex + 1]}

\* The Hb complex is fitted with OIII5007c (4870) beyond the last pixel (4869).
C6_Witness ==
    /\ pc = "loop"
    /\ ii = 2
    /\ SetMax(wave) = 4869
    /\ ind_line = {1, 2, 3}
    /\ 1 \notin RowsInRange
    /\ Len(SliceOf(loc.comp_result, 1)) = 6

----------------------------------------------------------------------------
(* C7 *)

\* C7: with no catalog line strictly inside the observed range the call ends
\* normally with line_result, its names and types, comp_result,
\* gauss_result, gauss_result_name, all_comp_range and uniq_linecomp_sort
\* empty and ncomp = 0.
C7_NoLineEmptyResult ==
    (pc = "done" /\ RowsInRange = {}) =>
        /\ self.assigned
        /\ self.line_result = <<>>
        /\ self.line_result_name = <<>>
        /\ self.line_result_type = <<>>
        /\ self.comp_result = <<>>
        /\ self.gauss_result = <<>>
        /\ self.gauss_result_name = <<>>
        /\ self.all_comp_range = <<>>
        /\ self.uniq_linecomp_sort = <<>>
        /\ self.ncomp = 0

\* A finished call whose last pixel sits exactly on a catalog line (4862).
C7_Witness ==
    /\ pc = "done"
    /\ call = 1
    /\ SetMax(wave) = 4862
    /\ RowsInRange = {}
    /\ self.assigned

----------------------------------------------------------------------------
(* C8 *)

\* The steps a running call still has to take, at most: per complex the
\* fit, n_trails trials and the return from new_line_mc; then the final join.
Measure ==
    CASE pc = "loop" -> (loc.ncomp - ii) * (n_trails + 2) + 1
      [] pc = "mc"   -> (loc.ncomp - ii) * (n_trails + 2) - mc.tra
      [] OTHER       -> 0

\* Every step of a running call uses up some of the measure, which never
\* drops below 0: the call cannot run forever.
C8_Progress ==
    (pc \in {"loop", "mc"}) => (Measure' < Measure /\ Measure' >= 0)

\* A running call is at a point from which the loop can go on.
C8_Running ==
    /\ pc \in {"idle", "loop", "mc", "done"}
    /\ pc = "loop" => ii <= loc.ncomp
    /\ pc = "mc" => ii < loc.ncomp /\ mc.tra <= n_trails /\ PixelsOf(ii) > 10

C8_OnceEach ==
    pc = "done" => \A c \in 1..loc.ncomp : visits[c] = 1

\* The status of every fitted complex is in comp_result as the solver gave it.
C8_StatusRecorded ==
    pc \in {"loop", "done"} =>
        \A c \in Processed :
            PixelsOf(c) > 10 =>
                /\ Len(SliceOf(loc.comp_result, c)) = 6
                /\ SliceOf(loc.comp_result, c)[2].q = "status"
                /\ SliceOf(loc.comp_result, c)[2].v \in StatusCodes
                /\ c = ii - 1 => SliceOf(loc.comp_result, c)[2].v = line_fit.status

\* C8: every invocation reaches Done after handling each complex exactly
\* once, whatever is skipped and whatever status the solver returns: each
\* step of a running call strictly lowers a non-negative measure, Done is
\* the only state a call ends in, and a fit that did not converge is
\* recorded with its status like any other.
C8_AlwaysDone ==
    [][C8_Progress]_vars /\ []C8_Running /\ []C8_OnceEach /\ []C8_StatusRecorded

\* Done, with one complex skipped and one recorded with status 5 (maxiter).
C8_Witness ==
    /\ pc = "done"
    /\ loc.ncomp = 2
    /\ Len(loc.comp_result) = 6
    /\ loc.comp_result[2].v = 5

----------------------------------------------------------------------------
(* C9 *)

FromThisCall(vec) == \A i \in 1..Len(vec) : vec[i].call = call

\* C9: after a call, the line-fit state on the object (comp_result,
\* gauss_result, line_result, ncomp, all_comp_range, uniq_linecomp_sort and
\* na_all_dict) holds only what this call produced from its own inputs:
\* nothing an earlier call produced remains, also when this call finds no
\* line in range.
C9_NothingFromEarlierCalls ==
    pc = "done" =>
        /\ FromThisCall(self.comp_result)
        /\ FromThisCall(self.gauss_result)
        /\ FromThisCall(self.line_result)
        /\ self.ncomp = Cardinality({linelist[k].compname : k \in RowsInRange})
        /\ Len(self.uniq_linecomp_sort) = self.ncomp
        /\ Len(self.all_comp_range) = 2 * self.ncomp
        /\ \A l \in DOMAIN self.na_all_dict : self.na_all_dict[l].call = call
        /\ RowsInRange = {} => DOMAIN self.na_all_dict = {}

----------------------------------------------------------------------------
(* C10 *)

\* Within new_line_mc a step is one trial: it is one refit, and it leaves
\* y, err, pp0 and pp_limits as they were.
C10_TrialStep ==
    (pc = "mc" /\ pc' = "mc") =>
        /\ mc'.y = mc.y
        /\ mc'.err = mc.err
        /\ mc'.pp0 = mc.pp0
        /\ mc'.pp_limits = mc.pp_limits
        /\ mc'.tra = mc.tra + 1
        /\ mc'.nrefit = mc.nrefit + 1

\* Every trial started from pp0: what it returned is pp0 moved by one
\* solver shift, and the next trial starts from pp0 again.
C10_SameStart ==
    pc = "mc" =>
        /\ mc.start = mc.pp0
        /\ mc.nrefit = mc.tra
        /\ mc.tra <= n_trails
        /\ Len(mc.all_para_1comp) = mc.tra
        /\ \A t \in 1..Len(mc.all_para_1comp) :
              \E sh \in Shifts : mc.all_para_1comp[t] = Fitted(mc.pp0, sh)

\* new_line_mc returns after exactly n_trails refits.
C10_ReturnStep == (pc = "mc" /\ pc' = "loop") => mc.nrefit = n_trails

\* C10: new_line_mc performs exactly n_trails refits, one per trial index;
\* every trial starts from the same pp0 and pp_limits and perturbs the same
\* y and err, none of which any trial changes, so no trial's outcome feeds
\* a later trial.
C10_TrialsIndependent ==
    [][C10_TrialStep]_vars /\ [][C10_ReturnStep]_vars /\ []C10_SameStart

\* Two trials done, the first of which moved the parameters.
C10_Witness ==
    /\ pc = "mc"
    /\ n_trails = 2
    /\ mc.tra = 2
    /\ mc.all_para_1comp[1] # mc.pp0

----------------------------------------------------------------------------
(* C11 *)

\* The lengths of the five sample lists of one narrow-line entry.
ListLengths(entry) ==
    <<Len(entry.fwhm), Len(entry.sigma), Len(entry.ew), Len(entry.peak),
      Len(entry.area)>>

\* A step that runs one trial of new_line_mc.
IsTrialStep == pc = "mc" /\ pc' = "mc" /\ mc'.tra = mc.tra + 1

\* In a trial step, a line whose try block raised gets no sample in any of
\* its five lists, every other narrow line gets one sample in each, and the
\* raw-parameter and broad-quantity accumulators receive the trial.
C11_TrialStep ==
    IsTrialStep =>
        /\ Len(mc'.all_para_1comp) = Len(mc.all_para_1comp) + 1
        /\ Len(mc'.broad) = Len(mc.broad) + 1
        /\ DOMAIN mc'.na_all_dict = DOMAIN mc.na_all_dict
        /\ \A l \in DOMAIN mc.na_all_dict :
              IF l \in mc'.mismatch
              THEN mc'.na_all_dict[l] = mc.na_all_dict[l]
              ELSE \A k \in 1..5 :
                      ListLengths(mc'.na_all_dict[l])[k]
                          = ListLengths(mc.na_all_dict[l])[k] + 1

\* While new_line_mc runs, the five lists of every narrow line have one
\* length, at most the number of trials run, and both accumulators hold one
\* entry per trial run.
C11_EqualLists ==
    pc = "mc" =>
        /\ Len(mc.all_para_1comp) = mc.tra
        /\ Len(mc.broad) = mc.tra
        /\ \A l \in DOMAIN mc.na_all_dict :
              \A k \in 1..5 :
                 /\ ListLengths(mc.na_all_dict[l])[k] = Len(mc.na_all_dict[l].fwhm)
                 /\ ListLengths(mc.na_all_dict[l])[k] <= mc.tra

\* new_line_mc returns only after all n_trails trials, raised or not.
C11_AllTrialsRun ==
    (pc = "mc" /\ pc' = "loop") => mc.tra = n_trails

\* C11: a failure while recomputing the narrow-line quantities of line L in
\* trial t is not fatal: the trial adds no sample to any of L's five lists,
\* the other lines of the trial and all later trials are still processed,
\* the raw-parameter and broad-quantity accumulators still receive trial t,
\* and after every trial L's five lists have one length, at most the number
\* of trials run so far.
C11_NarrowFailureNotFatal ==
    /\ [][C11_TrialStep /\ C11_AllTrialsRun]_vars
    /\ []C11_EqualLists

\* After two trials, one of which raised for OIII5007c only: that line has
\* one sample, OIII4959c has two.
C11_Witness ==
    /\ pc = "mc"
    /\ mc.tra = MaxTrails
    /\ mc.mismatch = {}
    /\ DOMAIN mc.na_all_dict = {"OIII5007c", "OIII4959c"}
    /\ Len(mc.na_all_dict["OIII5007c"].fwhm) = mc.tra - 1
    /\ Len(mc.na_all_dict["OIII4959c"].fwhm) = mc.tra

----------------------------------------------------------------------------
(* C12 *)

\* The Monte Carlo standard deviations recorded in a result vector.
StdEntries(vec) == {i \in 1..Len(vec) : vec[i].kind = "std"}

\* C12: with n_trails = 1 every per-parameter Monte Carlo standard
\* deviation that new_line_mc returns is exactly 0, and so are the standard
\* deviations of the five complex-level quantities fwhm, sigma, ew, peak
\* and area.
C12_SingleTrialStdZero ==
    (MC /\ n_trails = 1) =>
        /\ \A i \in StdEntries(loc.gauss_result) : loc.gauss_result[i].v = 0
        /\ \A i \in StdEntries(loc.fur_result) : loc.fur_result[i].v = 0

\* One trial was run for a fitted complex with non-zero parameters, and its
\* standard deviations are recorded.
C12_Witness ==
    /\ pc = "done"
    /\ MC /\ n_trails = 1
    /\ StdEntries(loc.gauss_result) # {}
    /\ StdEntries(loc.fur_result) # {}
    /\ \E i \in 1..Len(loc.gauss_result) :
          loc.gauss_result[i].kind = "value" /\ loc.gauss_result[i].v # 0

----------------------------------------------------------------------------
(* C13 *)

\* The catalog rows of the complex being refitted, in catalog order.
McRows == Ascending({k \in Rows : linelist[k].compname = CurName})

\* The line names of the catalog that contain neither 'br' nor 'na'.
NamedNarrow == {"OIII5007c", "OIII4959c"}

\* Where the first Gaussian component of the line at position i of the
\* complex starts in the parameter vector: 3 x (sum of ngauss of the lines
\* before it).
OwnOffset(i) == 3 * SumSeq([j \in 1..(i - 1) |-> linelist[McRows[j]].ngauss])

\* The narrow-line entries are those of the lines of the complex whose name
\* contains neither 'br' nor 'na'.
C13_Keys ==
    pc = "mc" =>
        DOMAIN mc.na_all_dict =
            {linelist[McRows[i]].linename : i \in 1..Len(McRows)} \cap NamedNarrow

\* In a trial step every sample appended for a narrow line is computed from
\* the three parameters of that line's own first component.
C13_OwnSlice ==
    IsTrialStep =>
        \A i \in 1..Len(McRows) :
            LET row == linelist[McRows[i]]
                l == row.linename
                params == mc'.all_para_1comp[Len(mc'.all_para_1comp)]
                own == SubSeq(params, OwnOffset(i) + 1, OwnOffset(i) + 3)
                q == line_prop(row.lambda, own, "narrow")
            IN (l \in DOMAIN mc.na_all_dict /\ l \notin mc'.mismatch) =>
                  /\ mc'.na_all_dict[l].fwhm = Append(mc.na_all_dict[l].fwhm, q[1])
                  /\ mc'.na_all_dict[l].sigma = Append(mc.na_all_dict[l].sigma, q[2])
                  /\ mc'.na_all_dict[l].ew = Append(mc.na_all_dict[l].ew, q[3])
                  /\ mc'.na_all_dict[l].peak = Append(mc.na_all_dict[l].peak, q[4])
                  /\ mc'.na_all_dict[l].area = Append(mc.na_all_dict[l].area, q[5])

\* C13: in new_line_mc the lines that get a narrow-line entry are exactly
\* the lines of the complex whose name contains neither 'br' nor 'na', and
\* the 3-parameter slice used for such a line in every trial is the line's
\* own first Gaussian component: it starts at offset 3 x (sum of ngauss of
\* the lines that precede it in the complex).
C13_NarrowSliceIsOwn == [][C13_OwnSlice]_vars /\ []C13_Keys

\* A trial has sampled OIII4959c, which follows the two-component line
\* OIII5007c in the Hb complex and so starts at offset 6.
C13_Witness ==
    /\ pc = "mc"
    /\ CurName = "Hb"
    /\ "OIII4959c" \in DOMAIN mc.na_all_dict
    /\ Len(mc.na_all_dict["OIII4959c"].fwhm) > 0
    /\ \E i \in 1..Len(McRows) :
          linelist[McRows[i]].linename = "OIII4959c" /\ OwnOffset(i) = 6

----------------------------------------------------------------------------
(* C14 *)

\* The catalog rows of the complex at loop index c, in catalog order.
RowsOfComplex(c) ==
    Ascending({k \in Rows : linelist[k].compname = loc.uniq_linecomp_sort[c + 1]})

\* The parameter indices of one tie group of the complex at loop index c:
\* for each of its lines in group grp of the given kind, the index of the
\* scale (off 0), center (off 1) or width (off 2) of its first component.
GroupOf(c, field, grp, off) ==
    LET rs == RowsOfComplex(c)
    IN {3 * SumSeq([j \in 1..(i - 1) |-> linelist[rs[j]].ngauss]) + off :
           i \in {j \in 1..Len(rs) : linelist[rs[j]][field] = grp}}

GroupsOf(c) ==
    [vindex1 |-> GroupOf(c, "vindex", 1, 1), vindex2 |-> GroupOf(c, "vindex", 2, 1),
     windex1 |-> GroupOf(c, "windex", 1, 2), windex2 |-> GroupOf(c, "windex", 2, 2),
     findex1 |-> GroupOf(c, "findex", 1, 0), findex2 |-> GroupOf(c, "findex", 2, 0)]

RowsAsSet(c) == {RowsOfComplex(c)[i] : i \in 1..Len(RowsOfComplex(c))}

\* A step that takes up the complex at the current loop index.
TakesUp == pc = "loop" /\ visits' # visits
\* A step that records the results of a fitted complex.
Records == Len(loc'.comp_result) > Len(loc.comp_result)

\* Whatever the window test says, the step that takes up complex ii leaves
\* the tie groups of complex ii resolved; a complex with too few pixels
\* never enters the Monte Carlo refinement.
C14_TakeUpStep ==
    TakesUp =>
        /\ visits' = [visits EXCEPT ![ii + 1] = 1]
        /\ tie' = GroupsOf(ii)
        /\ ind_line' = {RowsOfComplex(ii)[i] : i \in 1..Len(RowsOfComplex(ii))}
        /\ PixelsOf(ii) <= 10 => (pc' = "loop" /\ ii' = ii + 1 /\ ~Records)
        /\ pc' = "mc" => (ii' = ii /\ Len(line_fit'.params) = 3 * ComponentsOf(ii))

\* While the refinement runs it is the refinement of complex ii: Monte Carlo
\* is enabled, complex ii has been fitted and not skipped, its tie groups
\* are the resolved ones and no later complex has been taken up.
C14_WhileMc ==
    pc = "mc" =>
        /\ MC /\ n_trails > 0
        /\ PixelsOf(ii) > 10
        /\ visits[ii + 1] = 1
        /\ \A j \in (ii + 2)..loc.ncomp : visits[j] = 0
        /\ Len(line_fit.params) = 3 * ComponentsOf(ii)
        /\ line_fit.status \in StatusCodes
        /\ tie = GroupsOf(ii)

\* No step of the refinement takes up or leaves a complex, except its
\* return, which moves on to the next complex.
C14_McStep ==
    pc = "mc" =>
        /\ visits' = visits
        /\ tie' = tie
        /\ line_fit' = line_fit
        /\ pc' = "mc" => (ii' = ii /\ ~Records)
        /\ pc' # "mc" => (pc' = "loop" /\ ii' = ii + 1 /\ Records)

\* What is recorded for complex ii rests on the tie groups of complex ii.
C14_RecordStep ==
    Records =>
        LET n == Len(loc'.comp_result)
            fix == DofFix(GroupsOf(ii), tie_lambda, tie_width, tie_flux_1,
                          tie_flux_2)
        IN /\ dof_fix' = fix
           /\ loc'.comp_result[n].comp = ii
           /\ loc'.comp_result[n].q = "dof"
           /\ loc'.comp_result[n].v = line_fit'.dof + fix
           /\ (pc = "loop") = ~(MC /\ n_trails > 0)

\* C14: within one invocation the per-complex steps are strictly ordered:
\* the tie groups of complex i are resolved before its window is tested;
\* the Monte Carlo refinement of complex i runs only after the fit of
\* complex i and before complex i+1 is started, only when Monte Carlo is
\* enabled and never for a skipped complex; dof_fix and the results
\* recorded for complex i use the tie groups resolved for complex i.
C14_StepsOrdered ==
    /\ [][C14_TakeUpStep /\ C14_McStep /\ C14_RecordStep]_vars
    /\ []C14_WhileMc

\* The refinement runs for the second complex, whose tie groups differ from
\* those of the first, which was fitted and recorded before.
C14_Witness ==
    /\ pc = "mc"
    /\ ii = 1
    /\ mc.tra > 0
    /\ Len(loc.comp_result) > 0
    /\ tie = GroupsOf(ii)
    /\ tie # GroupsOf(ii - 1)

----------------------------------------------------------------------------
(* C15 *)

\* C15: after any _DoLineFit invocation comp_result holds exactly 6 entries
\* for each of the ncomp complexes, those of the c-th complex of
\* uniq_linecomp_sort at indices 6c..6c+5, so the read comp_result[c*6+3]
\* in _PlotFig is in bounds for every c < ncomp and is the reduced
\* chi-square of the complex plotted in panel c, whose x-range is
\* all_comp_range[2c:2c+2].
C15_PanelChi2OfItsComplex ==
    /\ pc = "done" =>
          /\ Len(self.comp_result) = 6 * self.ncomp
          /\ \A c \in 0..(self.ncomp - 1) :
                \A k \in 1..6 :
                    self.comp_result[6 * c + k].who = self.uniq_linecomp_sort[c + 1]
    /\ fig.at # "none" =>
          /\ fig.at = "shown"
          /\ Len(fig.panels) = self.ncomp
          /\ \A c \in 1..Len(fig.panels) :
                /\ fig.panels[c].chi2 # IndexError
                /\ fig.panels[c].chi2.q = "red_chi2"
                /\ fig.panels[c].chi2.who = fig.panels[c].tname
                /\ fig.panels[c].xlim = CompRange(RowsAsSet(c - 1))

----------------------------------------------------------------------------
(* C16 *)

\* One decoded triple is the scale, center and sigma of one component.
OneComponent(t) ==
    /\ \A k \in 1..3 : t[k].kind = "value"
    /\ t[2].comp = t[1].comp /\ t[3].comp = t[1].comp
    /\ t[1].idx % 3 = 0
    /\ t[2].idx = t[1].idx + 1
    /\ t[3].idx = t[1].idx + 2

\* C16: the stride _PlotFig uses to read gauss_result (2 entries per
\* parameter when self.MC is true, otherwise 1) matches the layout
\* _DoLineFit wrote for every combination of MC and n_trails: each triple
\* _PlotFig decodes is the (scale, center, sigma) of one Gaussian component,
\* never mixes in a standard deviation and never reads past the end.
C16_StrideMatchesLayout ==
    fig.at # "none" =>
        \A p \in 1..Len(fig.triples) : OneComponent(fig.triples[p])

----------------------------------------------------------------------------
(* C17 *)

\* The step on which _DoContiFit finishes, by return or by exception.
ContiFinishes == conti.at # "out" /\ conti'.at = "out"

\* When _DoContiFit finishes, self.path is what it was when it was called.
C17_FinishStep == ContiFinishes => obj'.path = conti.path_at_call

\* The path is the package data path only while the inherited fit is in
\* progress, and after a finished call it is the path from before the call.
C17_PathInPlace ==
    /\ conti.at # "out" => obj.path = datapath
    /\ (conti.at = "out" /\ conti.outcome # "none") =>
            obj.path = conti.path_at_call

\* C17: _DoContiFit leaves self.path unchanged: the path is replaced by the
\* package data path only for the duration of the inherited continuum fit,
\* and after _DoContiFit finishes, whether it returns a value or the
\* inherited fit raises, self.path equals its value before the call.
C17_PathRestored == [][C17_FinishStep]_vars /\ []C17_PathInPlace

\* A call on an object with its own path finished because the inherited fit
\* raised, and the object has its own path again.
C17_Witness ==
    /\ conti.at = "out"
    /\ conti.outcome = "raise"
    /\ conti.path_at_call = "/data/"
    /\ obj.path = "/data/"

====
